---- MODULE Spec2Model ----
(***************************************************************************)
(* Model of lighthouse-core/audits/time-to-interactive.js: TTIMetric.audit  *)
(* looks up the first speedline frame at or after first meaningful paint    *)
(* with visual progress >= 85, then slides a 500ms window in 50ms steps     *)
(* until the 90th-percentile estimated input latency is small enough or the *)
(* trace ends.  Times are integer milliseconds.  Percentiles are written in *)
(* percent (90 for the source's 0.9).                                       *)
(***************************************************************************)
EXTENDS Integers, Sequences, FiniteSets, TLC

VARIABLES
  fmpResult,            \* result of FMPMetric.audit: rawValue, timings
  artifacts,            \* Speedline.frames and traceContents
  model,                \* tracingProcessor.init(traceContents): bounds
  pc,                   \* position in TTIMetric.audit
  visuallyReady,        \* <<>> for undefined, <<frame>> once found
  visuallyReadyTiming,
  startTime,
  endTime,
  currentLatency,
  foundLatencies,
  queries,              \* windows passed to getRiskToResponsiveness, in order
  iterations,           \* number of times the while body was entered
  result,               \* what the promise settles with
  inputs,               \* interleaved invocations: the arguments of each
  position,             \* interleaved invocations: where each one stands
  locals,               \* interleaved invocations: the callback's variables
  outcome,              \* interleaved invocations: what each promise settles with
  cacheArtifacts,       \* CacheStartUrl.audit: its argument
  cacheResult           \* CacheStartUrl.audit: its return value

ttiVars == <<fmpResult, artifacts, model, pc, visuallyReady, visuallyReadyTiming,
             startTime, endTime, currentLatency, foundLatencies, queries,
             iterations, result>>

callVars == <<inputs, position, locals, outcome>>

cacheVars == <<cacheArtifacts, cacheResult>>

vars == <<ttiVars, callVars, cacheVars>>

----------------------------------------------------------------------------
(* Bounds of the model *)

MaxFrames == 3

----------------------------------------------------------------------------
(* Program constants *)

Infinity == 1000000
percentile == 90
threshold == 50
minProgress == 85
leadTime == 50
stepWidth == 50
windowWidth == 500

----------------------------------------------------------------------------
(* Inputs *)

FrameTimes == {900, 1200, 1300}
FrameProgress == {84, 85}
Frames == [progress : FrameProgress, time : FrameTimes]

\* Speedline frames are in chronological order
FrameSeqs ==
  UNION { { s \in [1..n -> Frames] :
              \A i \in 1..(n - 1) : s[i].time <= s[i + 1].time } :
          n \in 0..MaxFrames }

FmpResults ==
  { [rawValue |-> t, timings |-> [fMPfull |-> t, navStart |-> n]] :
      t \in {1000, 1250}, n \in {0, 100} }

Bounds ==
  { [min |-> 0, max |-> 1700], [min |-> 0, max |-> 1925],
    [min |-> 1300, max |-> 2000], [min |-> 0, max |-> 1000] }

Estimate(p50, p90) ==
  << [percentile |-> 50, time |-> p50], [percentile |-> 90, time |-> p90] >>

\* A trace is abstracted as the set of estimates its windows can produce.
TraceContents ==
  { { Estimate(0, 0), Estimate(10, 49), Estimate(10, 50), Estimate(20, 51) },
    { Estimate(0, 0), Estimate(10, 50), Estimate(60, 100) },
    { Estimate(60, 100) },
    { Estimate(0, 0) } }

----------------------------------------------------------------------------
(* Helpers *)

Max(a, b) == IF a >= b THEN a ELSE b

\* ceiling of a / b for b > 0 (\div rounds towards minus infinity)
CeilDiv(a, b) == -((-a) \div b)

\* Array.prototype.find: index of the first element passing the test, 0 if none
visualProgress == artifacts.Speedline.frames

fMPts == fmpResult.timings.fMPfull + fmpResult.timings.navStart

IsVisuallyReady(frame, notBefore) ==
  frame.time >= notBefore /\ frame.progress >= minProgress

VisuallyReadyIndexLast(frames, notBefore) ==
  IF \E i \in 1..Len(frames) : IsVisuallyReady(frames[i], notBefore)
  THEN CHOOSE i \in 1..Len(frames) :
         /\ IsVisuallyReady(frames[i], notBefore)
         /\ \A j \in (i + 1)..Len(frames) : ~IsVisuallyReady(frames[j], notBefore)
  ELSE 0

VisuallyReadyIndex(frames, notBefore) ==
  IF \E i \in 1..Len(frames) : IsVisuallyReady(frames[i], notBefore)
  THEN CHOOSE i \in 1..Len(frames) :
         /\ IsVisuallyReady(frames[i], notBefore)
         /\ \A j \in 1..(i - 1) : ~IsVisuallyReady(frames[j], notBefore)
  ELSE 0

endOfTraceTime == model.bounds.max

InitialStartTimeNoLead(fmpTiming, vrTiming) == Max(fmpTiming, vrTiming)

InitialStartTime(fmpTiming, vrTiming) == Max(fmpTiming, vrTiming) - leadTime

NextStartTimeSmallStep(t) == t + 10

NextStartTime(t) == t + stepWidth

WindowEnd(t) == t + windowWidth

OutOfTraceByStart(end, traceEnd) == end - windowWidth > traceEnd

OutOfTrace(end, traceEnd) == end > traceEnd

\* latencies.find(res => res.percentile === percentile)
EstLatency(latencies) ==
  latencies[CHOOSE i \in 1..Len(latencies) :
              /\ latencies[i].percentile = percentile
              /\ \A j \in 1..(i - 1) : latencies[j].percentile # percentile]

\* foundLatencies.push(Object.assign({}, estLatency, {startTime}))
PushSampleIfBusy(samples, estLatency, start) ==
  IF estLatency.time > threshold
  THEN Append(samples, [percentile |-> estLatency.percentile,
                        time |-> estLatency.time, startTime |-> start])
  ELSE samples

PushSampleBeforeAdvance(samples, estLatency, start) ==
  Append(samples, [percentile |-> estLatency.percentile,
                   time |-> estLatency.time, startTime |-> start - stepWidth])

PushSample(samples, estLatency, start) ==
  Append(samples, [percentile |-> estLatency.percentile,
                   time |-> estLatency.time, startTime |-> start])

LoopContinues(latency) == latency > threshold

----------------------------------------------------------------------------
(* State machine *)

Init ==
  /\ fmpResult \in FmpResults
  /\ \E frames \in FrameSeqs, trace \in TraceContents :
       artifacts = [Speedline |-> [frames |-> frames], traceContents |-> trace]
  /\ \E b \in Bounds : model = [bounds |-> b]
  /\ pc = "start"
  /\ visuallyReady = << >>
  /\ visuallyReadyTiming = 0
  /\ startTime = 0
  /\ endTime = 0
  /\ currentLatency = Infinity
  /\ foundLatencies = << >>
  /\ queries = << >>
  /\ iterations = 0
  /\ result = [kind |-> "pending"]
  /\ inputs = << >>
  /\ position = << >>
  /\ locals = << >>
  /\ outcome = << >>
  /\ cacheArtifacts = [kind |-> "none"]
  /\ cacheResult = [kind |-> "none"]

\* visualProgress.find(...) yields undefined; visuallyReady.time throws a
\* TypeError inside the then-callback, so the returned promise rejects.
VisuallyReadyMissing ==
  /\ pc = "start"
  /\ VisuallyReadyIndex(visualProgress, fMPts) = 0
  /\ pc' = "done"
  /\ result' = [kind |-> "TypeError"]
  /\ UNCHANGED <<fmpResult, artifacts, model, visuallyReady,
                 visuallyReadyTiming, startTime, endTime, currentLatency,
                 foundLatencies, queries, iterations>>
  /\ UNCHANGED <<callVars, cacheVars>>

BeginSearch ==
  /\ pc = "start"
  /\ LET i == VisuallyReadyIndex(visualProgress, fMPts) IN
       /\ i # 0
       /\ visuallyReady' = << visualProgress[i] >>
       /\ visuallyReadyTiming' = visualProgress[i].time - fmpResult.timings.navStart
       /\ startTime' = InitialStartTime(fmpResult.rawValue,
                          visualProgress[i].time - fmpResult.timings.navStart)
  /\ currentLatency' = Infinity
  /\ foundLatencies' = << >>
  /\ pc' = "loop"
  /\ UNCHANGED <<fmpResult, artifacts, model, endTime, queries, iterations,
                 result>>
  /\ UNCHANGED <<callVars, cacheVars>>

\* Loop body up to the early return: no more room in the trace.
TraceExhausted ==
  /\ pc = "loop"
  /\ LoopContinues(currentLatency)
  /\ OutOfTrace(WindowEnd(NextStartTime(startTime)), endOfTraceTime)
  /\ startTime' = NextStartTime(startTime)
  /\ endTime' = WindowEnd(NextStartTime(startTime))
  /\ iterations' = iterations + 1
  /\ result' = [kind |-> "undefined"]
  /\ pc' = "done"
  /\ UNCHANGED <<fmpResult, artifacts, model, visuallyReady,
                 visuallyReadyTiming, currentLatency, foundLatencies, queries>>
  /\ UNCHANGED <<callVars, cacheVars>>

\* One full pass of the loop body: query the estimator and record the sample.
QueryWindow ==
  /\ pc = "loop"
  /\ LoopContinues(currentLatency)
  /\ ~OutOfTrace(WindowEnd(NextStartTime(startTime)), endOfTraceTime)
  /\ startTime' = NextStartTime(startTime)
  /\ endTime' = WindowEnd(NextStartTime(startTime))
  /\ iterations' = iterations + 1
  /\ queries' = Append(queries, [start |-> startTime', end |-> endTime'])
  /\ \E latencies \in artifacts.traceContents :
       /\ foundLatencies' = PushSample(foundLatencies, EstLatency(latencies),
                                       startTime')
       /\ currentLatency' = EstLatency(latencies).time
  /\ UNCHANGED <<fmpResult, artifacts, model, pc, visuallyReady,
                 visuallyReadyTiming, result>>
  /\ UNCHANGED <<callVars, cacheVars>>

Report ==
  /\ pc = "loop"
  /\ ~LoopContinues(currentLatency)
  /\ result' = [kind |-> "AuditResult",
                value |-> startTime,
                rawValue |-> startTime,
                extendedInfo |->
                  [timings |-> [fMP |-> fmpResult.rawValue,
                                visuallyReady |-> visuallyReadyTiming,
                                mainThreadAvail |-> startTime],
                   expectedLatencyAtTTI |-> currentLatency,
                   foundLatencies |-> foundLatencies]]
  /\ pc' = "done"
  /\ UNCHANGED <<fmpResult, artifacts, model, visuallyReady,
                 visuallyReadyTiming, startTime, endTime, currentLatency,
                 foundLatencies, queries, iterations>>
  /\ UNCHANGED <<callVars, cacheVars>>

Next ==
  \/ VisuallyReadyMissing
  \/ BeginSearch
  \/ TraceExhausted
  \/ QueryWindow
  \/ Report

Spec == Init /\ [][Next]_vars

\* The audit body runs synchronously to completion once the FMP promise
\* has resolved, so a step that is possible is eventually taken.
FairSpec == Spec /\ WF_vars(Next)

----------------------------------------------------------------------------
(* lighthouse-core/audits/cache-start-url.js: CacheStartUrl.audit           *)
(* A URL is a sequence of tokens: "H" stands for scheme and host            *)
(* ("http://a"), "utm_" for the literal prefix the regular expression looks *)
(* for, the other tokens for themselves.                                    *)

MaxParams == 2
MaxCache == 2

RECURSIVE Join(_, _)
\* the parameters joined with sep(arator) tokens
Join(params, sep) ==
  IF params = << >> THEN << >>
  ELSE IF Len(params) = 1 THEN params[1]
  ELSE params[1] \o << sep >> \o Join(Tail(params), sep)

QueryParams == { << "utm_", "s", "=", "v" >>, << "k", "=", "v" >> }

\* "", "?", and "?" followed by up to MaxParams parameters
QueryStrings ==
  { << >>, << "?" >> } \cup
  UNION { { << "?" >> \o Join(ps, "&") : ps \in [1..n -> QueryParams] } :
          n \in 1..MaxParams }

\* manifest start_url members as written: root-relative, absolute or empty
RawUrls ==
  { << "/" >> \o q : q \in QueryStrings } \cup
  { << "H", "/" >> \o q : q \in QueryStrings } \cup { << >> }

PageUrls == { << "H", "/" >>, << "H", "/", "p" >> }

CachedUrls == { << "H", "/" >> \o q : q \in QueryStrings } \cup { << "H", "/", "p" >> }

CacheArrays == UNION { [1..n -> CachedUrls] : n \in 0..MaxCache }

Manifests ==
  { [present |-> FALSE, hasValue |-> FALSE, hasStartUrl |-> FALSE, raw |-> << >>],
    [present |-> TRUE, hasValue |-> FALSE, hasStartUrl |-> FALSE, raw |-> << >>],
    [present |-> TRUE, hasValue |-> TRUE, hasStartUrl |-> FALSE, raw |-> << >>] }
  \cup
  { [present |-> TRUE, hasValue |-> TRUE, hasStartUrl |-> TRUE, raw |-> r] :
      r \in RawUrls }

CacheArtifacts ==
  { [Manifest |-> m, CacheContents |-> [isArray |-> TRUE, items |-> c], URL |-> u] :
      m \in Manifests, c \in CacheArrays, u \in PageUrls \cup { << >> } }
  \cup
  { [Manifest |-> m, CacheContents |-> [isArray |-> FALSE, items |-> << >>],
     URL |-> u] :
      m \in Manifests, u \in PageUrls \cup { << >> } }

\* the guard of the early return; an empty string is falsy
ArtifactsPresent(a) ==
  /\ a.Manifest.present
  /\ a.Manifest.hasValue
  /\ a.Manifest.hasStartUrl
  /\ a.CacheContents.isArray
  /\ a.URL # << >>

\* url.resolve(baseURL, raw) for the shapes of RawUrls
UrlResolve(baseURL, raw) ==
  IF raw = << >> THEN baseURL
  ELSE IF raw[1] = "H" THEN raw
  ELSE << baseURL[1] >> \o raw

\* first position where /\?utm_([^=]*)=([^&]|$)*/ matches, 0 if none
UtmMatchStart(u) ==
  LET starts == { i \in 1..(Len(u) - 1) :
                    /\ u[i] = "?"
                    /\ u[i + 1] = "utm_"
                    /\ \E e \in (i + 2)..Len(u) : u[e] = "=" }
  IN IF starts = {} THEN 0
     ELSE CHOOSE i \in starts : \A j \in starts : i <= j

\* last position of that match: [^=]* runs to the first "=", ([^&]|$)* to
\* the token before the next "&" or to the end
UtmMatchEnd(u, i) ==
  LET e == CHOOSE x \in (i + 2)..Len(u) :
             u[x] = "=" /\ \A y \in (i + 2)..(x - 1) : u[y] # "="
      amps == { x \in (e + 1)..Len(u) : u[x] = "&" }
  IN IF amps = {} THEN Len(u)
     ELSE (CHOOSE x \in amps : \A y \in amps : x <= y) - 1

\* .replace(/\?utm_([^=]*)=([^&]|$)*/, '')
ReplaceUtm(u) ==
  LET i == UtmMatchStart(u) IN
    IF i = 0 THEN u
    ELSE SubSeq(u, 1, i - 1) \o SubSeq(u, UtmMatchEnd(u, i) + 1, Len(u))

\* .replace(/\?$/, '')
ReplaceTrailingQuestionMark(u) ==
  IF u # << >> /\ u[Len(u)] = "?" THEN SubSeq(u, 1, Len(u) - 1) ELSE u

StartURL(a) == UrlResolve(a.URL, a.Manifest.raw)

AltStartURL(a) == ReplaceTrailingQuestionMark(ReplaceUtm(StartURL(a)))

\* cacheContents.find(...) !== undefined
CacheHasStartUrl(a) ==
  \E i \in 1..Len(a.CacheContents.items) :
    \/ StartURL(a) = a.CacheContents.items[i]
    \/ AltStartURL(a) = a.CacheContents.items[i]

\* the time-to-interactive variables while another audit is modelled
TtiIdle ==
  /\ fmpResult = [rawValue |-> 0, timings |-> [fMPfull |-> 0, navStart |-> 0]]
  /\ artifacts = [Speedline |-> [frames |-> << >>], traceContents |-> {}]
  /\ model = [bounds |-> [min |-> 0, max |-> 0]]
  /\ pc = "idle"
  /\ visuallyReady = << >>
  /\ visuallyReadyTiming = 0
  /\ startTime = 0
  /\ endTime = 0
  /\ currentLatency = Infinity
  /\ foundLatencies = << >>
  /\ queries = << >>
  /\ iterations = 0
  /\ result = [kind |-> "idle"]

CacheInit ==
  /\ TtiIdle
  /\ inputs = << >>
  /\ position = << >>
  /\ locals = << >>
  /\ outcome = << >>
  /\ cacheArtifacts \in CacheArtifacts
  /\ cacheResult = [kind |-> "pending"]

\* the early return: a required artifact is missing
CacheAuditMissingArtifact ==
  /\ cacheResult.kind = "pending"
  /\ ~ArtifactsPresent(cacheArtifacts)
  /\ cacheResult' = [kind |-> "AuditResult", rawValue |-> FALSE]
  /\ UNCHANGED <<ttiVars, callVars, cacheArtifacts>>

CacheAuditLookup ==
  /\ cacheResult.kind = "pending"
  /\ ArtifactsPresent(cacheArtifacts)
  /\ cacheResult' = [kind |-> "AuditResult",
                     rawValue |-> CacheHasStartUrl(cacheArtifacts)]
  /\ UNCHANGED <<ttiVars, callVars, cacheArtifacts>>

CacheNext ==
  \/ CacheAuditMissingArtifact
  \/ CacheAuditLookup

CacheSpec == CacheInit /\ [][CacheNext]_vars

----------------------------------------------------------------------------
(* Two invocations of TTIMetric.audit in flight at once.  The steps of the  *)
(* two callbacks are interleaved at the granularity of one loop pass, which *)
(* includes the schedule in which each callback runs to completion.         *)

Invocations == {1, 2}

\* The estimator as a deterministic function of the trace and the window:
\* the main thread is busy up to quietFrom and quiet afterwards.
Traces ==
  { [quietFrom |-> 0, busy |-> Estimate(60, 100), quiet |-> Estimate(0, 0)],
    [quietFrom |-> 1300, busy |-> Estimate(60, 100), quiet |-> Estimate(10, 49)],
    [quietFrom |-> 100000, busy |-> Estimate(20, 51), quiet |-> Estimate(0, 0)] }

GetRiskToResponsiveness(trace, start, end) ==
  IF start >= trace.quietFrom THEN trace.quiet ELSE trace.busy

CallInputs ==
  { [fmpResult |-> [rawValue |-> t, timings |-> [fMPfull |-> t, navStart |-> 0]],
     frames |-> << [progress |-> p, time |-> ft] >>,
     bounds |-> [min |-> 0, max |-> m],
     trace |-> tr] :
      t \in {1000, 1250}, p \in {84, 85}, ft \in {1200, 1300},
      m \in {1700, 1925}, tr \in Traces }

FreshLocals ==
  [visuallyReadyTiming |-> 0, startTime |-> 0, endTime |-> 0,
   currentLatency |-> Infinity, foundLatencies |-> << >>]

\* Where invocation i keeps its variables: they are declared with const and
\* let inside the then-callback, so every invocation has bindings of its own.
SharedScope(i) == 1

Scope(i) == i

CallVisuallyReadyIndex(i) ==
  VisuallyReadyIndex(inputs[i].frames,
                     inputs[i].fmpResult.timings.fMPfull
                       + inputs[i].fmpResult.timings.navStart)

\* TTIMetric.generateAuditResult({value, rawValue, optimalValue, extendedInfo})
GenerateAuditResult(fmp, vrTiming, start, latency, samples) ==
  [kind |-> "AuditResult",
   value |-> start,
   rawValue |-> start,
   extendedInfo |->
     [timings |-> [fMP |-> fmp, visuallyReady |-> vrTiming,
                   mainThreadAvail |-> start],
      expectedLatencyAtTTI |-> latency,
      foundLatencies |-> samples]]

CallInit ==
  /\ TtiIdle
  /\ cacheArtifacts = [kind |-> "none"]
  /\ cacheResult = [kind |-> "none"]
  /\ inputs \in [Invocations -> CallInputs]
  /\ position = [i \in Invocations |-> "start"]
  /\ locals = [i \in Invocations |-> FreshLocals]
  /\ outcome = [i \in Invocations |-> [kind |-> "pending"]]

CallVisuallyReadyMissing(i) ==
  /\ position[i] = "start"
  /\ CallVisuallyReadyIndex(i) = 0
  /\ position' = [position EXCEPT ![i] = "done"]
  /\ outcome' = [outcome EXCEPT ![i] = [kind |-> "TypeError"]]
  /\ UNCHANGED <<ttiVars, cacheVars, inputs, locals>>

CallBeginSearch(i) ==
  /\ position[i] = "start"
  /\ CallVisuallyReadyIndex(i) # 0
  /\ LET frame == inputs[i].frames[CallVisuallyReadyIndex(i)]
         vrTiming == frame.time - inputs[i].fmpResult.timings.navStart
     IN locals' = [locals EXCEPT ![Scope(i)] =
                     [visuallyReadyTiming |-> vrTiming,
                      startTime |-> InitialStartTime(inputs[i].fmpResult.rawValue,
                                                     vrTiming),
                      endTime |-> @.endTime,
                      currentLatency |-> Infinity,
                      foundLatencies |-> << >>]]
  /\ position' = [position EXCEPT ![i] = "loop"]
  /\ UNCHANGED <<ttiVars, cacheVars, inputs, outcome>>

CallTraceExhausted(i) ==
  /\ position[i] = "loop"
  /\ LET my == locals[Scope(i)] IN
       /\ LoopContinues(my.currentLatency)
       /\ OutOfTrace(WindowEnd(NextStartTime(my.startTime)), inputs[i].bounds.max)
       /\ locals' = [locals EXCEPT ![Scope(i)] =
                       [@ EXCEPT !.startTime = NextStartTime(my.startTime),
                                 !.endTime = WindowEnd(NextStartTime(my.startTime))]]
  /\ outcome' = [outcome EXCEPT ![i] = [kind |-> "undefined"]]
  /\ position' = [position EXCEPT ![i] = "done"]
  /\ UNCHANGED <<ttiVars, cacheVars, inputs>>

CallQueryWindow(i) ==
  /\ position[i] = "loop"
  /\ LET my == locals[Scope(i)]
         start == NextStartTime(my.startTime)
         end == WindowEnd(start)
         estLatency == EstLatency(GetRiskToResponsiveness(inputs[i].trace, start, end))
     IN /\ LoopContinues(my.currentLatency)
        /\ ~OutOfTrace(end, inputs[i].bounds.max)
        /\ locals' = [locals EXCEPT ![Scope(i)] =
                        [@ EXCEPT !.startTime = start,
                                  !.endTime = end,
                                  !.foundLatencies =
                                     PushSample(my.foundLatencies, estLatency, start),
                                  !.currentLatency = estLatency.time]]
  /\ UNCHANGED <<ttiVars, cacheVars, inputs, position, outcome>>

CallReport(i) ==
  /\ position[i] = "loop"
  /\ LET my == locals[Scope(i)] IN
       /\ ~LoopContinues(my.currentLatency)
       /\ outcome' = [outcome EXCEPT ![i] =
                        GenerateAuditResult(inputs[i].fmpResult.rawValue,
                                            my.visuallyReadyTiming, my.startTime,
                                            my.currentLatency, my.foundLatencies)]
  /\ position' = [position EXCEPT ![i] = "done"]
  /\ UNCHANGED <<ttiVars, cacheVars, inputs, locals>>

CallNext ==
  \/ \E i \in Invocations : CallVisuallyReadyMissing(i)
  \/ \E i \in Invocations : CallBeginSearch(i)
  \/ \E i \in Invocations : CallTraceExhausted(i)
  \/ \E i \in Invocations : CallQueryWindow(i)
  \/ \E i \in Invocations : CallReport(i)

CallSpec == CallInit /\ [][CallNext]_vars

RECURSIVE SearchAlone(_, _, _, _, _)
\* the while loop of one invocation run on its own, from the given loop state
SearchAlone(input, vrTiming, start, latency, samples) ==
  IF ~LoopContinues(latency)
  THEN [outcome |-> GenerateAuditResult(input.fmpResult.rawValue, vrTiming,
                                        start, latency, samples),
        samples |-> samples]
  ELSE LET next == NextStartTime(start) IN
    IF OutOfTrace(WindowEnd(next), input.bounds.max)
    THEN [outcome |-> [kind |-> "undefined"], samples |-> samples]
    ELSE LET estLatency ==
               EstLatency(GetRiskToResponsiveness(input.trace, next, WindowEnd(next)))
         IN SearchAlone(input, vrTiming, next, estLatency.time,
                        PushSample(samples, estLatency, next))

\* what TTIMetric.audit produces for these arguments when nothing else runs
AuditAlone(input) ==
  LET i == VisuallyReadyIndex(input.frames,
             input.fmpResult.timings.fMPfull + input.fmpResult.timings.navStart)
  IN IF i = 0
     THEN [outcome |-> [kind |-> "TypeError"], samples |-> << >>]
     ELSE LET vrTiming == input.frames[i].time - input.fmpResult.timings.navStart
          IN SearchAlone(input, vrTiming,
                         InitialStartTime(input.fmpResult.rawValue, vrTiming),
                         Infinity, << >>)

----------------------------------------------------------------------------
(* Properties *)

fmpTiming == fmpResult.rawValue

Searching == visuallyReady # << >>

Found == pc = "done" /\ result.kind = "AuditResult"

Exhausted == pc = "done" /\ result.kind = "undefined"

\* the start time the loop is entered with (referenceReady - leadTime)
currentStart0 == Max(fmpTiming, visuallyReadyTiming) - 50

ScenarioA == Searching /\ fmpTiming = 1000 /\ visuallyReadyTiming = 1200

\* C1: every window passed to the latency estimator has
\* windowEnd = windowStart + 500 and windowEnd <= bounds.max.
C1_WindowEndWithinTrace ==
  \A i \in 1..Len(queries) :
    /\ queries[i].end = queries[i].start + 500
    /\ queries[i].end <= model.bounds.max

\* a queried window that ends exactly at the end of the trace, after which
\* the search ran out of trace
C1_Witness ==
  /\ Exhausted
  /\ Len(queries) >= 1
  /\ queries[Len(queries)].end = model.bounds.max

\* C2 (as stated): the first window queried starts at
\* max(layoutStableTime, visualReadyTime) - 50; with layoutStableTime = 1000,
\* visualReadyTime = 1200 and an idle first window the result is Found(1150).
C2_FirstWindowAtLeadTime ==
  /\ Len(queries) >= 1 =>
       queries[1].start = Max(fmpTiming, visuallyReadyTiming) - 50
  /\ (ScenarioA /\ pc = "done" /\ Len(foundLatencies) >= 1
        /\ foundLatencies[1].time = 0) =>
       (result.kind = "AuditResult" /\ result.rawValue = 1150)

\* C2 (amended): the first window queried starts at
\* max(layoutStableTime, visualReadyTime), because the start is initialised
\* 50ms earlier and advanced by 50ms before the first query; with
\* layoutStableTime = 1000, visualReadyTime = 1200 and an idle first window
\* the result is Found(1200).
C2_FirstWindowAtReferenceReady ==
  /\ Len(queries) >= 1 =>
       queries[1].start = Max(fmpTiming, visuallyReadyTiming)
  /\ (ScenarioA /\ pc = "done" /\ Len(foundLatencies) >= 1
        /\ foundLatencies[1].time = 0) =>
       (result.kind = "AuditResult" /\ result.rawValue = 1200)

C2_Witness ==
  /\ ScenarioA
  /\ Found
  /\ Len(foundLatencies) = 1
  /\ foundLatencies[1].time = 0
  /\ result.rawValue = 1200

\* C3: the search ends in Found at a window if and only if that window's
\* 90th-percentile latency is strictly below 50; a window at exactly 50 does
\* not stop the search.
C3_FoundIffStrictlyBelowThreshold ==
  pc = "done" /\ Searching =>
    \A i \in 1..Len(foundLatencies) :
      (foundLatencies[i].time < 50) <=>
        (result.kind = "AuditResult" /\ i = Len(foundLatencies))

\* C4: when the trace ends before any window satisfies the threshold, the
\* search returns a typed not-found result (found: false) carrying every
\* sample tested.
C4_ExhaustedIsTypedNotFound ==
  (pc = "done" /\ Searching /\ endTime > model.bounds.max) =>
    /\ result.kind = "SearchResult"
    /\ result.found = FALSE
    /\ result.samples = foundLatencies

\* C5: when no progress sample has timestamp >= the reference time and
\* progress >= 85, the audit reports an indeterminate result instead of
\* failing with an exception, and the estimator is never queried.
C5_NoVisualReadinessIsIndeterminate ==
  (pc = "done" /\ \A i \in 1..Len(visualProgress) :
                     ~(visualProgress[i].time >= fMPts
                       /\ visualProgress[i].progress >= 85)) =>
    /\ result.kind = "Indeterminate"
    /\ queries = << >>

\* C6 (as stated): the loop runs at most
\* ceil((bounds.max - currentStart0) / 50) + 1 iterations.
C6_IterationBound ==
  (Searching /\ pc = "done") =>
    iterations <= CeilDiv(model.bounds.max - currentStart0, 50) + 1

\* C6 (amended): the search loop terminates (Found or Exhausted) after at
\* most max(1, ceil((bounds.max - currentStart0) / 50) + 1) iterations,
\* whatever latencies the estimator returns.
C6_TerminatesWithinBound ==
  /\ [](Searching =>
          iterations <= Max(1, CeilDiv(model.bounds.max - currentStart0, 50) + 1))
  /\ <>(pc = "done")

C6_Witness == Exhausted /\ iterations >= 5 /\ Len(queries) = iterations - 1

\* C7: when the search returns Found(t), t is the start of the earliest
\* tested window that meets the latency criterion (latency < 50): the last
\* sample meets it, no earlier sample does, and consecutive samples are one
\* 50ms step apart.
C7_FoundIsEarliestQualifyingWindow ==
  Found =>
    LET n == Len(foundLatencies) IN
      /\ n >= 1
      /\ result.rawValue = foundLatencies[n].startTime
      /\ foundLatencies[n].time < 50
      /\ \A i \in 1..(n - 1) : ~(foundLatencies[i].time < 50)
      /\ \A i \in 1..(n - 1) :
           foundLatencies[i + 1].startTime = foundLatencies[i].startTime + 50

\* C8: exactly one sample is recorded per window queried, in search order:
\* sample i belongs to query i, and consecutive samples start exactly 50ms
\* apart (hence strictly increasing).
C8_OneSamplePerQueryInOrder ==
  /\ Len(foundLatencies) = Len(queries)
  /\ \A i \in 1..Len(foundLatencies) :
       i <= Len(queries) => foundLatencies[i].startTime = queries[i].start
  /\ \A i \in 1..(Len(foundLatencies) - 1) :
       /\ foundLatencies[i + 1].startTime = foundLatencies[i].startTime + 50
       /\ foundLatencies[i + 1].startTime > foundLatencies[i].startTime

\* several busy windows followed by one that ended the search, all recorded
C8_Witness ==
  /\ Found
  /\ Len(foundLatencies) >= 3
  /\ foundLatencies[1].time > 50
  /\ foundLatencies[Len(foundLatencies)].time <= 50

\* C9: the visual-readiness lookup returns the minimal timestamp among the
\* samples with timestamp >= notBefore and progress >= 85.
C9_FirstReadyIsMinimal ==
  Searching =>
    /\ visuallyReady[1].time >= fMPts
    /\ visuallyReady[1].progress >= 85
    /\ \A i \in 1..Len(visualProgress) :
         (visualProgress[i].time >= fMPts /\ visualProgress[i].progress >= 85)
           => visuallyReady[1].time <= visualProgress[i].time

\* an early frame at 85% before the reference time is passed over, and of
\* two later qualifying frames the earlier one is returned
C9_Witness ==
  /\ Searching
  /\ \E i, j, k \in 1..Len(visualProgress) :
       /\ visualProgress[i].progress >= 85 /\ visualProgress[i].time < fMPts
       /\ visualProgress[j].progress >= 85 /\ visualProgress[j].time >= fMPts
       /\ visualProgress[k].progress >= 85
       /\ visualProgress[k].time > visualProgress[j].time
       /\ visuallyReady[1].time = visualProgress[j].time

\* C10: every queried window [start, end] has start <= end and lies inside
\* the trace bounds: bounds.min <= start and end <= bounds.max.
C10_QueriedWindowsInsideBounds ==
  \A i \in 1..Len(queries) :
    /\ queries[i].start <= queries[i].end
    /\ model.bounds.min <= queries[i].start
    /\ queries[i].end <= model.bounds.max

\* C12: whenever the audit produces a result, value, rawValue and
\* timings.mainThreadAvail equal the start time of the last sample in
\* foundLatencies, expectedLatencyAtTTI equals that sample's latency, the
\* trail is non-empty, and the reported time + 500 <= bounds.max.
C12_ReportedTimeIsLastSample ==
  Found =>
    LET trail == result.extendedInfo.foundLatencies
        n == Len(trail)
    IN /\ n >= 1
       /\ trail = foundLatencies
       /\ result.value = trail[n].startTime
       /\ result.rawValue = trail[n].startTime
       /\ result.extendedInfo.timings.mainThreadAvail = trail[n].startTime
       /\ result.extendedInfo.expectedLatencyAtTTI = trail[n].time
       /\ result.rawValue + 500 <= model.bounds.max

\* a result reported after several windows, whose window ends exactly at
\* the end of the trace
C12_Witness ==
  /\ Found
  /\ Len(result.extendedInfo.foundLatencies) >= 2
  /\ result.rawValue + 500 = model.bounds.max

\* position of the first "?" of a URL, 0 if it has no query
QueryStart(u) ==
  IF \E i \in 1..Len(u) : u[i] = "?"
  THEN CHOOSE i \in 1..Len(u) : u[i] = "?" /\ \A j \in 1..(i - 1) : u[j] # "?"
  ELSE 0

RECURSIVE SplitParams(_)
\* the "&"-separated parameters of a query string (without its "?")
SplitParams(q) ==
  IF \E i \in 1..Len(q) : q[i] = "&"
  THEN LET i == CHOOSE x \in 1..Len(q) :
                  q[x] = "&" /\ \A y \in 1..(x - 1) : q[y] # "&"
       IN << SubSeq(q, 1, i - 1) >> \o SplitParams(SubSeq(q, i + 1, Len(q)))
  ELSE IF q = << >> THEN << >> ELSE << q >>

IsUtmParam(param) == param # << >> /\ param[1] = "utm_"

\* a URL with its utm query parameters removed; a URL that has none is
\* left as it is
WithoutUtm(u) ==
  LET i == QueryStart(u)
      params == IF i = 0 THEN << >> ELSE SplitParams(SubSeq(u, i + 1, Len(u)))
      kept == SelectSeq(params, LAMBDA param : ~IsUtmParam(param))
  IN IF kept = params THEN u
     ELSE IF kept = << >> THEN SubSeq(u, 1, i - 1)
     ELSE SubSeq(u, 1, i - 1) \o << "?" >> \o Join(kept, "&")

CacheAuditDone == cacheResult.kind = "AuditResult"

\* C13: the cache-start-url audit returns rawValue false whenever the
\* Manifest, its value, its start_url or the URL artifact is missing or
\* CacheContents is not an array; otherwise rawValue is true exactly when
\* some CacheContents entry equals the start_url resolved against the page
\* URL, or that URL with its utm query string removed.
C13_CacheStartUrlRawValue ==
  CacheAuditDone =>
    LET a == cacheArtifacts
        missing == \/ ~a.Manifest.present
                   \/ ~a.Manifest.hasValue
                   \/ ~a.Manifest.hasStartUrl
                   \/ a.URL = << >>
                   \/ ~a.CacheContents.isArray
        resolved == UrlResolve(a.URL, a.Manifest.raw)
    IN IF missing
       THEN cacheResult.rawValue = FALSE
       ELSE cacheResult.rawValue =
              (\E i \in 1..Len(a.CacheContents.items) :
                 \/ a.CacheContents.items[i] = resolved
                 \/ a.CacheContents.items[i] = WithoutUtm(resolved))

\* C11: two invocations of the search running interleaved on independent
\* inputs do not interfere: when an invocation has finished, its result
\* and its sample trail are those it produces when run alone.
C11_InterleavedInvocationsIndependent ==
  \A i \in Invocations :
    position[i] = "done" =>
      /\ outcome[i] = AuditAlone(inputs[i]).outcome
      /\ locals[i].foundLatencies = AuditAlone(inputs[i]).samples

\* both invocations finished, on different inputs, one with a result after
\* several windows and the other out of trace after several windows
C11_Witness ==
  /\ inputs # << >>
  /\ inputs[1] # inputs[2]
  /\ position[1] = "done" /\ position[2] = "done"
  /\ outcome[1].kind = "AuditResult" /\ Len(locals[1].foundLatencies) >= 2
  /\ outcome[2].kind = "undefined" /\ Len(locals[2].foundLatencies) >= 2

====
